---------------------------- MODULE Spec2Model ----------------------------
(***************************************************************************)
(* Counterpoint (src/src/App.jsx): the graph store, the spiral layout and  *)
(* the snapshot-based edit history of the App component, as a state        *)
(* machine.  One action per handler; an async handler is split at its      *)
(* first await, the continuation keeping the values its closure captured.  *)
(* The module-level functions (storage, hub placement, layout, route       *)
(* search, bundling, offsets, path generation) are operators, each applied *)
(* to every small argument by a specification of its own; the pan and      *)
(* wheel handlers move and scale the viewport.                             *)
(***************************************************************************)
EXTENDS Integers, Sequences, FiniteSets, TLC

(***************************************************************************)
(* Bounds of the model.                                                    *)
(***************************************************************************)
MaxIds == 3          \* entity ids the collaborator can deliver
MaxConns == 2        \* classified connections in one collaborator record
MaxSnapshots == 1    \* Spec: handlers that push run while the list is shorter
MaxPending == 1      \* handler calls suspended at an await
MaxCalls == 4        \* SpecRace: handler calls in one session
MaxLayoutIds == 5    \* SpecLayout: artists on the map
MaxLayoutPushes == 2 \* SpecLayout: as MaxSnapshots
MaxOrderIds == 3     \* SpecOrder: artists handed to autoLayoutStations
MaxLayoutCalls == 2  \* SpecOrder: calls of autoLayoutStations
MaxRouteIds == 3     \* SpecRoute: ids the connections can name
MaxRouteConns == 3   \* SpecRoute: connections of the graph
MaxRouteDepth == 2   \* SpecRoute: largest maxDepth handed to findAllPaths
MaxBundleConns == 3  \* SpecBundle: connections among MaxIds artists
MaxBundleTotal == 6  \* SpecBundle: connections between one pair of artists
MaxGrid == 2         \* SpecPath: largest grid coordinate of an end point
MaxPathCalls == 2    \* SpecPath: calls of generateOctilinearPath
MaxMouse == 1        \* SpecView: largest mouse coordinate, in steps of two pixels
MaxSpiralIds == 10   \* SpecSpiral: artists of the map that is laid out
MaxHubRelations == 3 \* SpecHub: relations of the record that is placed
MaxSerialPushes == 3 \* SpecSerial: pushes of one session
MaxKeyConns == 2     \* SpecKey: connections of the list that is bundled
MaxLoadIds == 2      \* SpecLoad: artists of the graphs whose parts the stored texts hold
MaxViewCalls == 3    \* SpecView: mouse events of one session

(***************************************************************************)
(* Program constants.                                                      *)
(***************************************************************************)
HistoryLimit == 50   \* newHistory.length > 50
DefaultYear == 1970  \* a.year || 1970
LINE_GAP == 12       \* const LINE_GAP = 12
GRID_SIZE == 150     \* const GRID_SIZE = 150
TOLERANCE == 5       \* const TOLERANCE = 5

(***************************************************************************)
(* State of the App component (useState hooks), the addArtistToGraph calls *)
(* suspended at their await, and two history variables of the check: last  *)
(* (the handler that ran last and the state it started from) and run (the  *)
(* latest series of push+mutation steps and the undo/redo steps after it); *)
(* calls counts the handler calls of a session where a specification       *)
(* bounds them.  viewBox, isPanning and panStart are the viewport hooks.   *)
(* args and result hold the arguments and the return values of the calls   *)
(* of a module-level function (autoLayoutStations, findAllPaths,           *)
(* getBundledConnections, getBundleOffset, generateOctilinearPath) in the  *)
(* specifications that apply one function to every argument.               *)
(***************************************************************************)
VARIABLES graph, history, historyIndex, error, loadingArtists, pending, last, run,
          calls, viewBox, isPanning, panStart, args, result

vars == <<graph, history, historyIndex, error, loadingArtists, pending, last, run,
          calls, viewBox, isPanning, panStart, args, result>>

IdPool == <<"a", "b", "c", "d", "e", "f", "g", "h", "i", "j", "k", "l">>
Ids == {IdPool[i] : i \in 1..MaxIds}
Years == {0, 1960}                  \* 0 stands for a missing (null) year
Types == {"member", "studio"}
NoId == "-"

Min(a, b) == IF a < b THEN a ELSE b

(***************************************************************************)
(* The graph: artists is the object keyed by MBID, kept as the sequence of *)
(* its values in key (insertion) order; connections is the array.          *)
(***************************************************************************)
EmptyGraph == [artists |-> <<>>, connections |-> <<>>]

ArtistIds(artists) == {artists[i].id : i \in 1..Len(artists)}

\* graph.artists[mbid] is set
hasArtist(g, mbid) == mbid \in ArtistIds(g.artists)

\* faulty variant: the duplicate check is missing
alreadyOnMapNever(g, mbid) == FALSE

\* addArtistToGraph: if (graph.artists[mbid]) { setError(...); return; }
alreadyOnMap(g, mbid) == hasArtist(g, mbid)

\* JSON.stringify(graph): the text keeps both keys, the artists in key order
\* and the connections in array order
JSONstringify(g) == <<"artists", g.artists, "connections", g.connections>>

\* the values JSON.parse and a property read give that are no list of artists
\* or of connections
null == <<[null |-> TRUE]>>
undefined == <<[undefined |-> TRUE]>>

\* parsed[key] of the object a text describes: the member written last under
\* the key, undefined when there is none
member(s, key) ==
  LET at == {i \in 1..(Len(s) \div 2) : s[2 * i - 1] = key}
  IN IF at = {} THEN undefined
     ELSE s[2 * (CHOOSE i \in at : \A j \in at : j <= i)]

\* JSON.parse(text): the object, as the two properties the program reads
JSONparse(s) == [artists |-> member(s, "artists"), connections |-> member(s, "connections")]

(***************************************************************************)
(* autoLayoutStations                                                      *)
(***************************************************************************)
\* faulty variant: an artist without a year sorts first
yearKeyRaw(a) == a.year

\* a.year || 1970
yearKey(a) == IF a.year = 0 THEN DefaultYear ELSE a.year

RECURSIVE insertSorted(_, _)
\* stable: a is placed after every element whose key is not larger
insertSorted(sorted, a) ==
  IF sorted = <<>> THEN <<a>>
  ELSE IF yearKey(Head(sorted)) <= yearKey(a)
       THEN <<Head(sorted)>> \o insertSorted(Tail(sorted), a)
       ELSE <<a>> \o sorted

\* faulty variant: the list is left in the order of the mapping
sortNone(list) == list

RECURSIVE sortByYear(_)
\* artistList.sort((a, b) => (a.year || 1970) - (b.year || 1970))
sortByYear(list) ==
  IF list = <<>> THEN <<>>
  ELSE insertSorted(sortByYear(SubSeq(list, 1, Len(list) - 1)), list[Len(list)])

directions == << [dx |-> 2, dy |-> 0], [dx |-> 0, dy |-> 1],
                 [dx |-> -2, dy |-> 0], [dx |-> 0, dy |-> -1] >>

spiralStart == [x |-> 0, y |-> 0, dirIndex |-> 0, stepsInDir |-> 0,
                stepsBeforeTurn |-> 1, turnCount |-> 0]

\* one move along the spiral, with the turn bookkeeping
spiralStep(s) ==
  LET dir == directions[s.dirIndex + 1]
      nx == s.x + dir.dx
      ny == s.y + dir.dy
      n == s.stepsInDir + 1
  IN IF n >= s.stepsBeforeTurn
     THEN [x |-> nx, y |-> ny, dirIndex |-> (s.dirIndex + 1) % 4, stepsInDir |-> 0,
           turnCount |-> s.turnCount + 1,
           stepsBeforeTurn |-> IF (s.turnCount + 1) % 2 = 0
                               THEN s.stepsBeforeTurn + 1 ELSE s.stepsBeforeTurn]
     ELSE [s EXCEPT !.x = nx, !.y = ny, !.stepsInDir = n]

RECURSIVE nextFree(_, _)
\* while (occupied.has(getKey(x, y))) { ... }
nextFree(s, occupied) ==
  IF <<s.x, s.y>> \in occupied THEN nextFree(spiralStep(s), occupied) ELSE s

RECURSIVE placeAll(_, _, _)
\* artistList.forEach(...)
placeAll(list, s, occupied) ==
  IF list = <<>> THEN <<>>
  ELSE LET at == nextFree(s, occupied)
           placed == [Head(list) EXCEPT !.x = at.x, !.y = at.y]
       IN <<placed>> \o placeAll(Tail(list), spiralStep(at), occupied \cup {<<at.x, at.y>>})

\* faulty variant: the set of occupied cells outlives the call
cellsKept ==
  UNION {{<<result[i].output[j].x, result[i].output[j].y>> :
            j \in 1..Len(result[i].output)} : i \in 1..Len(result)}

autoLayoutKeepsOccupied(artists) == placeAll(sortByYear(artists), spiralStart, cellsKept)

\* faulty variant: the artists keep the coordinates they came with
autoLayoutNone(artists) == artists

\* the result object holds the artists in the order they were placed
autoLayoutStations(artists) == placeAll(sortByYear(artists), spiralStart, {})

(***************************************************************************)
(* findAllPaths                                                            *)
(***************************************************************************)
\* return null
NoRoute == "null"

\* faulty variant: the search stops one step early
tooDeepAtLimit(depth, maxDepth) == depth >= maxDepth

\* if (depth > maxDepth) return
tooDeep(depth, maxDepth) == depth > maxDepth

\* faulty variant: a connection is followed from wherever the search stands
nextIdOverAnywhere(conn, currentId, visited) ==
  IF conn.to \notin visited THEN conn.to
  ELSE IF conn.from \notin visited THEN conn.from
  ELSE NoId

\* the nextId of the forEach body; NoId stands for null
nextIdOver(conn, currentId, visited) ==
  IF conn.from = currentId /\ conn.to \notin visited THEN conn.to
  ELSE IF conn.to = currentId /\ conn.from \notin visited THEN conn.from
  ELSE NoId

RECURSIVE dfs(_, _, _, _, _, _, _)
\* the paths one call of dfs pushes to allPaths, in the order it pushes them;
\* visited holds the ids of the calls that have not returned yet
dfs(g, endId, maxDepth, currentId, path, depth, visited) ==
  IF tooDeep(depth, maxDepth) THEN <<>>
  ELSE IF currentId = endId THEN <<path>>
  ELSE LET seen == visited \cup {currentId}
           RECURSIVE forEach(_)
           forEach(i) ==
             IF i > Len(g.connections) THEN <<>>
             ELSE LET conn == g.connections[i]
                      nextId == nextIdOver(conn, currentId, seen)
                      found == IF nextId # NoId
                               THEN dfs(g, endId, maxDepth, nextId,
                                        Append(path, [conn |-> conn, artistId |-> nextId]),
                                        depth + 1, seen)
                               ELSE <<>>
                  IN found \o forEach(i + 1)
       IN forEach(1)

RECURSIVE insertByLength(_, _)
\* stable: path is placed after every path that is not longer
insertByLength(sorted, path) ==
  IF sorted = <<>> THEN <<path>>
  ELSE IF Len(Head(sorted)) <= Len(path)
       THEN <<Head(sorted)>> \o insertByLength(Tail(sorted), path)
       ELSE <<path>> \o sorted

\* faulty variant: the paths stay in the order the search found them
sortFound(allPaths) == allPaths

RECURSIVE sortByLength(_)
\* allPaths.sort((a, b) => a.length - b.length)
sortByLength(allPaths) ==
  IF allPaths = <<>> THEN <<>>
  ELSE insertByLength(sortByLength(SubSeq(allPaths, 1, Len(allPaths) - 1)),
                      allPaths[Len(allPaths)])

findAllPaths(g, startId, endId, maxDepth) ==
  IF startId = NoId \/ endId = NoId \/ startId = endId THEN NoRoute
  ELSE LET allPaths == dfs(g, endId, maxDepth, startId, <<>>, 0, {})
       IN IF Len(allPaths) = 0 THEN NoRoute ELSE sortByLength(allPaths)[1]

(***************************************************************************)
(* getBundledConnections, getBundleOffset, LINE_TYPE_OFFSET and the offset *)
(* computation of the connections layer                                    *)
(***************************************************************************)
\* the UTF-16 code units of an id
CodeUnits ==
  [a |-> <<97>>, b |-> <<98>>, c |-> <<99>>, d |-> <<100>>, e |-> <<101>>,
   f |-> <<102>>, g |-> <<103>>, h |-> <<104>>, i |-> <<105>>, j |-> <<106>>,
   k |-> <<107>>, l |-> <<108>>]
    @@ ("a-b" :> <<97, 45, 98>>) @@ ("a-c" :> <<97, 45, 99>>) @@ ("b-c" :> <<98, 45, 99>>)

codeUnits(id) == CodeUnits[id]

\* the code unit of '-'
Dash == <<45>>

RECURSIVE before(_, _)
\* s < t as Array.prototype.sort compares two strings
before(s, t) ==
  IF t = <<>> THEN FALSE
  ELSE IF s = <<>> THEN TRUE
  ELSE IF Head(s) # Head(t) THEN Head(s) < Head(t)
  ELSE before(Tail(s), Tail(t))

\* faulty variant: the pair is left in the direction of the connection
unsortedPair(from, to) == <<from, to>>

\* [conn.from, conn.to].sort()
sortedPair(from, to) ==
  IF before(codeUnits(to), codeUnits(from)) THEN <<to, from>> ELSE <<from, to>>

\* faulty variant: the key is the first id of the sorted pair
bundleKeyFirst(conn) == codeUnits(sortedPair(conn.from, conn.to)[1])

\* [conn.from, conn.to].sort().join('-')
bundleKey(conn) ==
  LET pair == sortedPair(conn.from, conn.to)
  IN codeUnits(pair[1]) \o Dash \o codeUnits(pair[2])

RECURSIVE bundlesAfter(_, _)
\* bundles after the first n connections; a connection object is named by
\* its position in the list
bundlesAfter(connections, n) ==
  IF n = 0 THEN <<>>
  ELSE LET bundles == bundlesAfter(connections, n - 1)
           key == bundleKey(connections[n])
       IN IF key \notin DOMAIN bundles
          THEN bundles @@ (key :> <<n>>)
          ELSE [bundles EXCEPT ![key] = Append(@, n)]

getBundledConnections(connections) == bundlesAfter(connections, Len(connections))

\* faulty variant: the lines fan out to one side of the first
getBundleOffsetFromFirst(index, total, gap) == index * gap

\* (index - (total - 1) / 2) * gap, for an even gap
getBundleOffset(index, total, gap) ==
  IF total = 1 THEN 0 ELSE ((2 * index - (total - 1)) * gap) \div 2

\* LINE_TYPE_OFFSET[conn.type] || 0
LINE_TYPE_OFFSET(type) ==
  CASE type = "member" -> 0
    [] type = "studio" -> LINE_GAP
    [] type = "writing" -> 0 - LINE_GAP
    [] type = "label" -> (LINE_GAP * 3) \div 2
    [] type = "feature" -> 0 - ((LINE_GAP * 3) \div 2)
    [] type = "cover" -> LINE_GAP * 2
    [] OTHER -> 0

\* bundle.indexOf(conn)
indexOf(bundle, n) == (CHOOSE i \in 1..Len(bundle) : bundle[i] = n) - 1

\* the offsets the connections layer computes for the n-th connection
lineOffsets(connections, bundledConnections, n) ==
  LET conn == connections[n]
      bundle == bundledConnections[bundleKey(conn)]
      bundleIndex == indexOf(bundle, n)
      bundleTotal == Len(bundle)
      bundleOffset == getBundleOffset(bundleIndex, bundleTotal, LINE_GAP)
      typeOffset == LINE_TYPE_OFFSET(conn.type)
  IN [bundleIndex |-> bundleIndex, bundleTotal |-> bundleTotal,
      bundleOffset |-> bundleOffset, typeOffset |-> typeOffset,
      totalOffset |-> typeOffset + bundleOffset]

(***************************************************************************)
(* generateOctilinearPath.  A coordinate of the path is the real number    *)
(* n + r * (1 / Math.sqrt(2)) + u * (1 / len), held as its three integer   *)
(* coefficients; len is the distance of the two end points of the call.    *)
(***************************************************************************)
number(n) == [n |-> n, r |-> 0, u |-> 0]

\* k * (1 / Math.sqrt(2))
overRoot2(k) == [n |-> 0, r |-> k, u |-> 0]

\* k / len
overLen(k) == [n |-> 0, r |-> 0, u |-> k]

plus(a, b) == [n |-> a.n + b.n, r |-> a.r + b.r, u |-> a.u + b.u]

minus(a, b) == [n |-> a.n - b.n, r |-> a.r - b.r, u |-> a.u - b.u]

times(k, a) == [n |-> k * a.n, r |-> k * a.r, u |-> k * a.u]

abs(n) == IF n < 0 THEN 0 - n ELSE n

\* faulty variant: one segment from end point to end point
straightPath(x1, y1, x2, y2, offset) ==
  <<[x |-> number(x1), y |-> number(y1)], [x |-> number(x2), y |-> number(y2)]>>

\* the points of the path string: the M point, then the L points
generateOctilinearPath(x1, y1, x2, y2, offset) ==
  LET dx == x2 - x1
      dy == y2 - y1
      adx == abs(dx)
      ady == abs(dy)
      signX == IF dx > 0 THEN 1 ELSE -1
      signY == IF dy > 0 THEN 1 ELSE -1
      \* signY / signX
      slope == signY * signX
      p1x == plus(number(x1), overRoot2((0 - signY) * offset))
      p1y == plus(number(y1), overRoot2(signX * offset))
  IN IF ady < TOLERANCE
     THEN <<[x |-> number(x1), y |-> number(y1 + offset)],
            [x |-> number(x2), y |-> number(y2 + offset)]>>
     ELSE IF adx < TOLERANCE
     THEN <<[x |-> number(x1 + offset), y |-> number(y1)],
            [x |-> number(x2 + offset), y |-> number(y2)]>>
     ELSE IF abs(adx - ady) < TOLERANCE
     THEN LET perpX == overLen((0 - dy) * offset)
              perpY == overLen(dx * offset)
          IN <<[x |-> plus(number(x1), perpX), y |-> plus(number(y1), perpY)],
               [x |-> plus(number(x2), perpX), y |-> plus(number(y2), perpY)]>>
     ELSE IF adx > ady
     THEN LET p2y == number(y2 + offset)
              \* dividing by a slope of 1 or -1 is multiplying by it
              cornerX == plus(p1x, times(slope, minus(p2y, p1y)))
          IN <<[x |-> p1x, y |-> p1y], [x |-> cornerX, y |-> p2y],
               [x |-> number(x2), y |-> p2y]>>
     ELSE LET p2x == number(x2 - offset)
              cornerY == plus(p1y, times(slope, minus(p2x, p1x)))
          IN <<[x |-> p1x, y |-> p1y], [x |-> p2x, y |-> cornerY],
               [x |-> p2x, y |-> number(y2)]>>

(***************************************************************************)
(* Edit history                                                            *)
(***************************************************************************)
\* history[i] of the code (0-based)
At(h, i) == h[i + 1]

\* faulty variant: the redo branch is not cut off
sliceAll(prev, n) == prev

\* prev.slice(0, historyIndex + 1)
sliceTo(prev, n) == SubSeq(prev, 1, Min(n, Len(prev)))

\* the updater handed to setHistory in pushHistory
pushHistoryList(prev, idx, g) ==
  LET newHistory == Append(sliceTo(prev, idx + 1), JSONstringify(g))
  IN IF Len(newHistory) > HistoryLimit THEN Tail(newHistory) ELSE newHistory

\* setHistoryIndex(prev => Math.min(prev + 1, 49))
pushHistoryIndex(prev) == Min(prev + 1, HistoryLimit - 1)

canUndo(idx) == idx >= 0

canRedo(h, idx) == idx < Len(h) - 2

\* faulty variant: off by one, the earliest snapshot cannot be restored
undoReturnsAtZero(idx) == idx <= 0

\* the guard of undo: if (historyIndex < 0) return
undoReturns(idx) == idx < 0

\* the guard of redo: if (historyIndex >= history.length - 2) return
redoReturns(h, idx) == idx >= Len(h) - 2

\* faulty variant: the first undo does not save the current graph
undoHistoryNoSave(h, idx, g) == h

\* faulty variant: every undo saves the current graph
undoHistoryAlways(h, idx, g) == Append(h, JSONstringify(g))

\* undo: "save current state to allow redo if this is the first undo"
undoHistory(h, idx, g) ==
  IF idx = Len(h) - 1 THEN Append(h, JSONstringify(g)) ELSE h

undoGraph(h, idx) == JSONparse(At(h, idx))

\* faulty variant: redo reads the snapshot next to the cursor
redoGraphNext(h, idx) == JSONparse(At(h, idx + 1))

redoGraph(h, idx) == JSONparse(At(h, idx + 2))

(***************************************************************************)
(* Graph store                                                             *)
(***************************************************************************)
\* faulty variant: only the connections leaving the artist are dropped
removeArtistGraphFromOnly(g, mbid) ==
  [artists |-> SelectSeq(g.artists, LAMBDA a : a.id # mbid),
   connections |-> SelectSeq(g.connections, LAMBDA c : c.from # mbid)]

\* removeArtist: delete newArtists[mbid]; connections.filter(...)
removeArtistGraph(g, mbid) ==
  [artists |-> SelectSeq(g.artists, LAMBDA a : a.id # mbid),
   connections |-> SelectSeq(g.connections,
                             LAMBDA c : c.from # mbid /\ c.to # mbid)]

\* faulty variant: the connections to artists that are not on the map are kept
newConnectionsOfAll(g, mbid, conns) ==
  [i \in 1..Len(conns) |-> [from |-> mbid, to |-> conns[i].targetMbid, type |-> conns[i].type]]

RECURSIVE newConnectionsOf(_, _, _)
\* connections.forEach: those whose target is on the (captured) map
newConnectionsOf(g, mbid, conns) ==
  IF conns = <<>> THEN <<>>
  ELSE LET c == Head(conns)
           rest == newConnectionsOf(g, mbid, Tail(conns))
       IN IF hasArtist(g, c.targetMbid)
          THEN <<[from |-> mbid, to |-> c.targetMbid, type |-> c.type]>> \o rest
          ELSE rest

\* { ...graph.artists, [mbid]: newArtist }: an existing key keeps its place
withArtist(artists, a) ==
  IF a.id \in ArtistIds(artists)
  THEN [i \in 1..Len(artists) |-> IF artists[i].id = a.id THEN a ELSE artists[i]]
  ELSE Append(artists, a)

\* the graph handed to setGraph at the end of addArtistToGraph; g is the
\* graph the call's closure captured
addArtistGraph(g, mbid, data) ==
  LET newArtist == [id |-> mbid, year |-> data.year, x |-> 0, y |-> 0]
  IN [artists |-> autoLayoutStations(withArtist(g.artists, newArtist)),
      connections |-> g.connections \o newConnectionsOf(g, mbid, data.conns)]


NoError == "null"

\* what the collaborator (getRealArtistDetails and the extractors) can deliver
ConnLists(ids, types, max) ==
  UNION {[1..n -> [targetMbid : ids, type : types]] : n \in 0..max}

ArtistDataOf(ids, years, types, max) == [year : years, conns : ConnLists(ids, types, max)]

ArtistData(ids) == ArtistDataOf(ids, Years, Types, MaxConns)

Before(op, mbid) ==
  [op |-> op, prev |-> last.op, mbid |-> mbid, graph |-> graph, history |-> history,
   historyIndex |-> historyIndex, error |-> error]

RunIdle == [phase |-> "idle", pre |-> <<>>, post |-> <<>>, n |-> 0]

\* a push+mutation step that took the graph from g to g2
RunPushed(g, g2) ==
  IF run.phase = "push"
  THEN IF Len(run.pre) < HistoryLimit
       THEN [run EXCEPT !.pre = Append(@, g), !.post = Append(@, g2)]
       ELSE [run EXCEPT !.pre = Append(Tail(@), g), !.post = Append(Tail(@), g2)]
  ELSE IF historyIndex = Len(history) - 1
       THEN [phase |-> "push", pre |-> <<g>>, post |-> <<g2>>, n |-> 0]
       ELSE RunIdle

RunUndone ==
  IF run.phase = "push" THEN [run EXCEPT !.phase = "undo", !.n = 1]
  ELSE IF run.phase = "undo" /\ run.n < Len(run.pre) THEN [run EXCEPT !.n = @ + 1]
  ELSE RunIdle

RunRedone ==
  IF run.phase = "undo" /\ run.n = Len(run.pre) THEN [run EXCEPT !.phase = "redo", !.n = 1]
  ELSE IF run.phase = "redo" /\ run.n < Len(run.pre) THEN [run EXCEPT !.n = @ + 1]
  ELSE RunIdle

RECURSIVE StoredAfter(_, _, _, _)
\* the graphs a session that added k artists has saved
StoredAfter(k, years, types, max) ==
  IF k = 0 THEN {EmptyGraph}
  ELSE {addArtistGraph(g, IdPool[k], data) :
          g \in StoredAfter(k - 1, years, types, max),
          data \in ArtistDataOf({IdPool[i] : i \in 1..(k - 1)}, years, types, max)}

\* what localStorage can hold when the component mounts
StoredGraphs(n) == UNION {StoredAfter(k, Years, Types, MaxConns) : k \in 0..n}

\* localStorage.getItem(STORAGE_KEY): null when nothing was stored, else the
\* text, which is the text of an object, the text "null", or no JSON text
NoItem == [kind |-> "none", text |-> <<>>]

\* localStorage.setItem(STORAGE_KEY, JSON.stringify(graph))
saveGraphToStorage(g) == [kind |-> "object", text |-> JSONstringify(g)]

\* a value that passes for true in a condition
truthy(v) == v # null /\ v # undefined

\* faulty variant: only the artists are validated
loadGraphUnlessNoArtists(saved) ==
  IF saved.kind # "object" THEN EmptyGraph
  ELSE LET parsed == JSONparse(saved.text)
       IN IF truthy(parsed.artists) THEN parsed ELSE EmptyGraph

\* no item, a text that JSON.parse throws on and the text "null", whose
\* parsed.artists throws, all end at the final return
loadGraphFromStorage(saved) ==
  IF saved.kind # "object" THEN EmptyGraph
  ELSE LET parsed == JSONparse(saved.text)
       IN IF truthy(parsed.artists) /\ truthy(parsed.connections) THEN parsed
          ELSE EmptyGraph

\* no module-level function applied on its own
NoCall == <<>>

(***************************************************************************)
(* Numbers of the viewport.  The window holds fractions once the wheel has *)
(* multiplied it by 1.1 or 0.9, so a number is kept exactly, as a fraction *)
(* in lowest terms with a positive denominator.                            *)
(***************************************************************************)
\* Euclid's algorithm
euclid[a \in Nat, b \in Nat] == IF b = 0 THEN a ELSE euclid[b, a % b]

gcd(a, b) == euclid[a, b]

magnitude(n) == IF n < 0 THEN -n ELSE n

fraction(n, d) ==
  LET g == gcd(magnitude(n), magnitude(d))
      s == IF d < 0 THEN -1 ELSE 1
  IN [num |-> (s * n) \div g, den |-> (s * d) \div g]

whole(n) == fraction(n, 1)

sum(a, b) ==
  LET l == (a.den \div gcd(a.den, b.den)) * b.den
  IN fraction(a.num * (l \div a.den) + b.num * (l \div b.den), l)

difference(a, b) == sum(a, fraction(-b.num, b.den))

product(a, b) ==
  LET f == fraction(a.num, b.den)
      h == fraction(b.num, a.den)
  IN fraction(f.num * h.num, f.den * h.den)

quotient(a, b) == product(a, fraction(b.den, b.num))

\* useState({ x: 0, y: 0, width: 800, height: 600 }), useState(false),
\* useState({ x: 0, y: 0 })
ViewportMounted ==
  /\ viewBox = [x |-> whole(0), y |-> whole(0), width |-> whole(800),
                height |-> whole(600)]
  /\ isPanning = FALSE
  /\ panStart = [x |-> 0, y |-> 0]

StoreMounted(stored) ==
  /\ \E saved \in stored : graph = loadGraphFromStorage(saveGraphToStorage(saved))
  /\ history = <<>>
  /\ historyIndex = -1
  /\ error = NoError
  /\ loadingArtists = {}
  /\ pending = <<>>
  /\ last = [op |-> "init", prev |-> "init", mbid |-> NoId, graph |-> graph,
             history |-> <<>>, historyIndex |-> -1, error |-> NoError]
  /\ run = RunIdle
  /\ calls = 0

Mounted(stored) ==
  /\ StoreMounted(stored)
  /\ ViewportMounted
  /\ args = NoCall
  /\ result = NoCall

\* a step of the graph store: the viewport stays, no function call is recorded
StoreStep == UNCHANGED <<viewBox, isPanning, panStart, args, result>>

Init == Mounted(StoredGraphs(MaxIds))

\* pushHistory(): both state updates
pushHistory ==
  /\ history' = pushHistoryList(history, historyIndex, graph)
  /\ historyIndex' = pushHistoryIndex(historyIndex)

\* addArtistToGraph(mbid) with the id on the map: the early return
addArtistDuplicate(mbid) ==
  /\ alreadyOnMap(graph, mbid)
  /\ error' = "Artist already added to the map"
  /\ last' = Before("addDuplicate", mbid)
  /\ UNCHANGED <<graph, history, historyIndex, loadingArtists, pending>>

\* addArtistToGraph(mbid) up to its first await
addArtistStart(mbid) ==
  /\ ~alreadyOnMap(graph, mbid)
  /\ pushHistory
  /\ loadingArtists' = loadingArtists \cup {mbid}
  /\ error' = NoError
  /\ pending' = Append(pending, [kind |-> "add", mbid |-> mbid, graph |-> graph,
                                 history |-> history, historyIndex |-> historyIndex])
  /\ last' = Before("addStart", mbid)
  /\ UNCHANGED graph

dropPending(i) == SubSeq(pending, 1, i - 1) \o SubSeq(pending, i + 1, Len(pending))

\* the continuation: getRealArtistDetails returned no record
addArtistNotFound(i) ==
  /\ i \in 1..Len(pending)
  /\ pending[i].kind = "add"
  /\ error' = "Artist not found"
  /\ loadingArtists' = loadingArtists \ {pending[i].mbid}
  /\ last' = [Before("addNotFound", pending[i].mbid) EXCEPT
                !.graph = pending[i].graph, !.history = pending[i].history,
                !.historyIndex = pending[i].historyIndex]
  /\ pending' = dropPending(i)
  /\ UNCHANGED <<graph, history, historyIndex>>

\* the continuation: a collaborator threw (catch)
addArtistFailed(i) ==
  /\ i \in 1..Len(pending)
  /\ pending[i].kind = "add"
  /\ error' = "Failed to add artist. Please try again."
  /\ loadingArtists' = loadingArtists \ {pending[i].mbid}
  /\ last' = [Before("addFailed", pending[i].mbid) EXCEPT
                !.graph = pending[i].graph, !.history = pending[i].history,
                !.historyIndex = pending[i].historyIndex]
  /\ pending' = dropPending(i)
  /\ UNCHANGED <<graph, history, historyIndex>>

\* the continuation: the record arrived, setGraph from the captured graph
addArtistApply(i, data) ==
  /\ i \in 1..Len(pending)
  /\ pending[i].kind = "add"
  /\ graph' = addArtistGraph(pending[i].graph, pending[i].mbid, data)
  /\ loadingArtists' = loadingArtists \ {pending[i].mbid}
  /\ last' = Before("addApply", pending[i].mbid)
  /\ pending' = dropPending(i)
  /\ UNCHANGED <<history, historyIndex, error>>

removeArtist(mbid) ==
  /\ pushHistory
  /\ graph' = removeArtistGraph(graph, mbid)
  /\ last' = Before("remove", mbid)
  /\ UNCHANGED <<error, loadingArtists, pending>>

\* the "clear" button, rendered while the map holds an artist
clearMap ==
  /\ Len(graph.artists) > 0
  /\ pushHistory
  /\ graph' = EmptyGraph
  /\ last' = Before("clear", NoId)
  /\ UNCHANGED <<error, loadingArtists, pending>>

undoEffect ==
  IF undoReturns(historyIndex)
  THEN UNCHANGED <<graph, history, historyIndex>>
  ELSE /\ history' = undoHistory(history, historyIndex, graph)
       /\ graph' = undoGraph(history, historyIndex)
       /\ historyIndex' = historyIndex - 1

redoEffect ==
  IF redoReturns(history, historyIndex)
  THEN UNCHANGED <<graph, history, historyIndex>>
  ELSE /\ graph' = redoGraph(history, historyIndex)
       /\ historyIndex' = historyIndex + 1
       /\ UNCHANGED history

undo ==
  /\ undoEffect
  /\ last' = Before("undo", NoId)
  /\ UNCHANGED <<error, loadingArtists, pending>>

redo ==
  /\ redoEffect
  /\ last' = Before("redo", NoId)
  /\ UNCHANGED <<error, loadingArtists, pending>>

(***************************************************************************)
(* refreshArtist                                                           *)
(***************************************************************************)
Crashed == "TypeError while rendering"

\* refreshArtist(mbid) up to its first await
refreshArtistStart(mbid) ==
  /\ hasArtist(graph, mbid)
  /\ loadingArtists' = loadingArtists \cup {mbid}
  /\ error' = NoError
  /\ pending' = Append(pending, [kind |-> "refresh", mbid |-> mbid, graph |-> graph,
                                 history |-> history, historyIndex |-> historyIndex])
  /\ last' = Before("refreshStart", mbid)
  /\ UNCHANGED <<graph, history, historyIndex>>

\* the continuation: no record, or a collaborator threw
refreshArtistDropped(i, signal) ==
  /\ i \in 1..Len(pending)
  /\ pending[i].kind = "refresh"
  /\ error' = signal
  /\ loadingArtists' = loadingArtists \ {pending[i].mbid}
  /\ last' = Before("refreshDropped", pending[i].mbid)
  /\ pending' = dropPending(i)
  /\ UNCHANGED <<graph, history, historyIndex>>

\* some connection of the captured graph joins the two ids
connected(g, a, b) ==
  \E k \in 1..Len(g.connections) :
     \/ g.connections[k].from = a /\ g.connections[k].to = b
     \/ g.connections[k].from = b /\ g.connections[k].to = a

\* the feature connections refreshArtist adds: targets are the artists of the
\* captured graph that share a recording with mbid, in the object's order
refreshConnections(g, mbid, sharing) ==
  LET targets == SelectSeq(g.artists,
                           LAMBDA a : a.id # mbid /\ a.id \in sharing
                                      /\ ~connected(g, mbid, a.id))
  IN [k \in 1..Len(targets) |-> [from |-> mbid, to |-> targets[k].id, type |-> "feature"]]

\* the continuation: setGraph(prev => ...) on the current graph; the updater
\* reads prev.artists[mbid].potentialConnections and throws when the artist
\* has left the map
refreshArtistApply(i, sharing) ==
  /\ i \in 1..Len(pending)
  /\ pending[i].kind = "refresh"
  /\ IF hasArtist(graph, pending[i].mbid)
     THEN /\ graph' = [graph EXCEPT !.connections =
                         @ \o refreshConnections(pending[i].graph, pending[i].mbid, sharing)]
          /\ error' = error
     ELSE /\ graph' = graph
          /\ error' = Crashed
  /\ loadingArtists' = loadingArtists \ {pending[i].mbid}
  /\ last' = Before("refreshApply", pending[i].mbid)
  /\ pending' = dropPending(i)
  /\ UNCHANGED <<history, historyIndex>>

\* addArtistToGraph(mbid) whose fetch resolves before any other handler runs
addArtistNow(mbid, data) ==
  /\ ~alreadyOnMap(graph, mbid)
  /\ pushHistory
  /\ graph' = addArtistGraph(graph, mbid, data)
  /\ error' = NoError
  /\ last' = Before("add", mbid)
  /\ UNCHANGED <<loadingArtists, pending>>

(***************************************************************************)
(* Spec: the component mounted on any saved graph, every handler with      *)
(* every collaborator answer, a short history.                             *)
(***************************************************************************)
MayPush == Len(history) < MaxSnapshots

MaySuspend == Len(pending) < MaxPending

Uncounted == StoreStep /\ UNCHANGED <<run, calls>>

Next ==
  \/ \E mbid \in Ids : addArtistDuplicate(mbid) /\ Uncounted
  \/ \E mbid \in Ids : MayPush /\ MaySuspend /\ addArtistStart(mbid) /\ Uncounted
  \/ \E i \in 1..MaxPending : addArtistNotFound(i) /\ Uncounted
  \/ \E i \in 1..MaxPending : addArtistFailed(i) /\ Uncounted
  \/ \E i \in 1..MaxPending :
       \E data \in ArtistData(Ids) : addArtistApply(i, data) /\ Uncounted
  \/ \E mbid \in Ids : MayPush /\ removeArtist(mbid) /\ Uncounted
  \/ MayPush /\ clearMap /\ Uncounted
  \/ undo /\ Uncounted
  \/ redo /\ Uncounted

Spec == Init /\ [][Next]_vars

(***************************************************************************)
(* SpecHist: a long session on one artist, from the empty map, every       *)
(* mutation a push followed at once by its change of the graph.            *)
(***************************************************************************)
HistId == IdPool[1]

HistData == [year |-> 0, conns |-> <<>>]

InitHist == Mounted({EmptyGraph})

\* the step is part of the run that the history variable run records
Recorded == StoreStep /\ UNCHANGED calls

NextHist ==
  \/ addArtistNow(HistId, HistData) /\ run' = RunPushed(graph, graph') /\ Recorded
  \/ /\ hasArtist(graph, HistId)
     /\ removeArtist(HistId)
     /\ run' = RunPushed(graph, graph')
     /\ Recorded
  \/ clearMap /\ run' = RunPushed(graph, graph') /\ Recorded
  \/ undo /\ run' = RunUndone /\ Recorded
  \/ redo /\ run' = RunRedone /\ Recorded

SpecHist == InitHist /\ [][NextHist]_vars

(***************************************************************************)
(* SpecRace: few kinds of record, a longer history, and refreshArtist,     *)
(* whose continuation writes the graph without a snapshot.                 *)
(***************************************************************************)
RaceYears == {1960}

RaceTypes == {"member"}

RaceStored(n) == UNION {StoredAfter(k, RaceYears, RaceTypes, 1) : k \in 0..n}

InitRace == Mounted(RaceStored(MaxIds))

\* a user event: a handler is called
Called ==
  error # Crashed /\ calls < MaxCalls /\ calls' = calls + 1 /\ StoreStep /\ UNCHANGED run

\* a fetch settles: the continuation of a suspended handler runs
Settled == error # Crashed /\ StoreStep /\ UNCHANGED <<run, calls>>

RaceData == ArtistDataOf(Ids, RaceYears, RaceTypes, 1)

NextRace ==
  \/ \E mbid \in Ids : addArtistDuplicate(mbid) /\ Called
  \/ \E mbid \in Ids : MaySuspend /\ addArtistStart(mbid) /\ Called
  \/ \E mbid \in Ids : MaySuspend /\ refreshArtistStart(mbid) /\ Called
  \/ \E mbid \in Ids : removeArtist(mbid) /\ Called
  \/ clearMap /\ Called
  \/ undo /\ Called
  \/ redo /\ Called
  \/ \E i \in 1..MaxPending : addArtistNotFound(i) /\ Settled
  \/ \E i \in 1..MaxPending : addArtistFailed(i) /\ Settled
  \/ \E i \in 1..MaxPending : \E data \in RaceData : addArtistApply(i, data) /\ Settled
  \/ \E i \in 1..MaxPending : refreshArtistDropped(i, error) /\ Settled
  \/ \E i \in 1..MaxPending :
       refreshArtistDropped(i, "Failed to refresh artist data.") /\ Settled
  \/ \E i \in 1..MaxPending :
       \E sharing \in SUBSET Ids : refreshArtistApply(i, sharing) /\ Settled

SpecRace == InitRace /\ [][NextRace]_vars

(***************************************************************************)
(* SpecLayout: larger maps without connections, every mix of years, each   *)
(* addition settled at once.                                               *)
(***************************************************************************)
LayoutIds == {IdPool[i] : i \in 1..MaxLayoutIds}

LayoutData == ArtistDataOf({}, Years, {}, 0)

LayoutStored(n) == UNION {StoredAfter(k, Years, {}, 0) : k \in 0..n}

InitLayout == Mounted(LayoutStored(MaxLayoutIds))

MayPushLayout == Len(history) < MaxLayoutPushes

NextLayout ==
  \/ \E mbid \in LayoutIds : \E data \in LayoutData :
       MayPushLayout /\ addArtistNow(mbid, data) /\ Uncounted
  \/ \E mbid \in LayoutIds : MayPushLayout /\ removeArtist(mbid) /\ Uncounted
  \/ MayPushLayout /\ clearMap /\ Uncounted
  \/ undo /\ Uncounted
  \/ redo /\ Uncounted

SpecLayout == InitLayout /\ [][NextLayout]_vars

(***************************************************************************)
(* SpecSerial: a session from the empty map in which every handler runs to *)
(* its end before the next is called, on artists that have connections.    *)
(***************************************************************************)
InitSerial == Mounted({EmptyGraph})

MayPushSerial == Len(history) < MaxSerialPushes

NextSerial ==
  \/ \E mbid \in Ids : \E data \in ArtistData(Ids) :
       MayPushSerial /\ addArtistNow(mbid, data) /\ Uncounted
  \/ \E mbid \in Ids : MayPushSerial /\ removeArtist(mbid) /\ Uncounted
  \/ MayPushSerial /\ clearMap /\ Uncounted
  \/ undo /\ Uncounted
  \/ redo /\ Uncounted

SpecSerial == InitSerial /\ [][NextSerial]_vars

(***************************************************************************)
(* SpecOrder: autoLayoutStations applied on its own, to a mapping and to   *)
(* the same artists inserted in another order.                             *)
(***************************************************************************)
OrderYears == {0, 1960, 1970, 1980}

\* the orders in which the artists of S can have been inserted
Orders(S) == {s \in [1..Cardinality(S) -> S] : \A i, j \in DOMAIN s : i # j => s[i] # s[j]}

\* artists as addArtistToGraph hands them over: Object.values(updatedArtists)
OrderMappings(k) ==
  {[i \in 1..k |-> [id |-> order[i], year |-> years[order[i]], x |-> 0, y |-> 0]] :
     order \in Orders({IdPool[i] : i \in 1..k}),
     years \in [{IdPool[i] : i \in 1..k} -> OrderYears]}

sameArtists(m1, m2) ==
  {[id |-> m1[i].id, year |-> m1[i].year] : i \in 1..Len(m1)}
    = {[id |-> m2[i].id, year |-> m2[i].year] : i \in 1..Len(m2)}

RECURSIVE inOrder(_, _)
\* the artists of mapping m inserted in the given order
inOrder(m, order) ==
  IF order = <<>> THEN <<>> ELSE <<m[Head(order)]>> \o inOrder(m, Tail(order))

\* a mapping of k artists and the same artists inserted in any order
OrderArgs(a, k) ==
  \E m \in OrderMappings(k) : \E order \in Orders(1..k) :
    a = [artists |-> m, reordered |-> inOrder(m, order)]

InitOrder ==
  /\ StoreMounted({EmptyGraph})
  /\ ViewportMounted
  /\ \E k \in 0..MaxOrderIds : OrderArgs(args, k)
  /\ result = NoCall

\* a step that applies a function: the component's state stays
CallStep ==
  UNCHANGED <<graph, history, historyIndex, error, loadingArtists, pending, last, run,
              calls, viewBox, isPanning, panStart, args>>

\* const layouted = autoLayoutStations(updatedArtists)
layoutCall(artists) ==
  /\ Len(result) < MaxLayoutCalls
  /\ result' = Append(result, [input |-> artists, output |-> autoLayoutStations(artists)])
  /\ CallStep

NextOrder ==
  \/ layoutCall(args.artists)
  \/ layoutCall(args.reordered)

SpecOrder == InitOrder /\ [][NextOrder]_vars

(***************************************************************************)
(* SpecSpiral: autoLayoutStations applied once to a map of up to           *)
(* MaxSpiralIds artists, enough to walk the spiral into its third ring.    *)
(***************************************************************************)
SpiralYears == {0, 1960, 1980}

InitSpiral ==
  /\ StoreMounted({EmptyGraph})
  /\ ViewportMounted
  /\ \E n \in 0..MaxSpiralIds : \E years \in [1..n -> SpiralYears] :
       args = [i \in 1..n |-> [id |-> IdPool[i], year |-> years[i], x |-> 0, y |-> 0]]
  /\ result = NoCall

\* const layouted = autoLayoutStations(updatedArtists)
spiralCall ==
  /\ result = NoCall
  /\ result' = <<[input |-> args, output |-> autoLayoutStations(args)]>>
  /\ CallStep

NextSpiral == spiralCall

SpecSpiral == InitSpiral /\ [][NextSpiral]_vars

(***************************************************************************)
(* SpecRoute: findAllPaths applied on its own to every small graph, the    *)
(* graphs with a connection to an artist that is not on the map included.  *)
(***************************************************************************)
RouteIds == {IdPool[i] : i \in 1..MaxRouteIds}

RouteConnections(max) ==
  UNION {[1..n -> {c \in [from : RouteIds, to : RouteIds, type : {"member"}] :
                     c.from # c.to}] : n \in 0..max}

\* the map holds every id, or every id but the last
RouteArtists ==
  {autoLayoutStations([i \in 1..k |-> [id |-> IdPool[i], year |-> 0, x |-> 0, y |-> 0]]) :
     k \in {MaxRouteIds - 1, MaxRouteIds}}

RouteArgs(max) ==
  [graph : [artists : RouteArtists, connections : RouteConnections(max)],
   startId : RouteIds, endId : RouteIds, maxDepth : 1..MaxRouteDepth]

InitRoute ==
  /\ StoreMounted({EmptyGraph})
  /\ ViewportMounted
  /\ args \in RouteArgs(MaxRouteConns)
  /\ result = NoCall

\* const path = findAllPaths(graph, startStation, endStation)
routeCall ==
  /\ result = NoCall
  /\ result' = <<findAllPaths(args.graph, args.startId, args.endId, args.maxDepth)>>
  /\ CallStep

NextRoute == routeCall

SpecRoute == InitRoute /\ [][NextRoute]_vars

(***************************************************************************)
(* SpecBundle: the bundles and the line offsets of every short connection  *)
(* list among the artists, and of the longer lists between two artists.    *)
(***************************************************************************)
BundleConnections(max) ==
  UNION {[1..n -> {c \in [from : Ids, to : Ids, type : Types] : c.from # c.to}] :
           n \in 0..max}

FanConnections(max) ==
  UNION {[1..n -> {c \in [from : {IdPool[1], IdPool[2]}, to : {IdPool[1], IdPool[2]},
                          type : Types] : c.from # c.to}] : n \in 0..max}

InitBundle ==
  /\ StoreMounted({EmptyGraph})
  /\ ViewportMounted
  /\ args \in [connections : BundleConnections(MaxBundleConns)
                             \cup FanConnections(MaxBundleTotal)]
  /\ result = NoCall

\* bundledConnections (useMemo) and the offsets of the connections layer
bundleCall ==
  /\ result = NoCall
  /\ LET bundledConnections == getBundledConnections(args.connections)
     IN result' = <<[bundledConnections |-> bundledConnections,
                     lines |-> [n \in 1..Len(args.connections) |->
                                  lineOffsets(args.connections, bundledConnections, n)]]>>
  /\ CallStep

NextBundle == bundleCall

SpecBundle == InitBundle /\ [][NextBundle]_vars

(***************************************************************************)
(* SpecKey: the bundles of connections whose ids are strings of one and of *)
(* three characters, some of them with a '-' in the middle.                *)
(***************************************************************************)
KeyIds == {IdPool[1], IdPool[3], "a-b", "a-c", "b-c"}

KeyConnections(max) ==
  UNION {[1..n -> {c \in [from : KeyIds, to : KeyIds, type : {"member"}] : c.from # c.to}] :
           n \in 0..max}

InitKey ==
  /\ StoreMounted({EmptyGraph})
  /\ ViewportMounted
  /\ args \in [connections : KeyConnections(MaxKeyConns)]
  /\ result = NoCall

NextKey == bundleCall

SpecKey == InitKey /\ [][NextKey]_vars

(***************************************************************************)
(* SpecPath: generateOctilinearPath applied on its own, to end points on   *)
(* the grid and a few units off it, with the offsets the connections layer *)
(* can compute.                                                            *)
(***************************************************************************)
PathCoordinates ==
  {k * GRID_SIZE : k \in -1..MaxGrid} \cup {k * GRID_SIZE + 3 : k \in 0..1}

PathOffsets == {k * (LINE_GAP \div 2) : k \in -3..4}

PathArgs ==
  [x1 : PathCoordinates, y1 : PathCoordinates, x2 : PathCoordinates,
   y2 : PathCoordinates, offset : PathOffsets]

InitPath ==
  /\ StoreMounted({EmptyGraph})
  /\ ViewportMounted
  /\ args \in PathArgs
  /\ result = NoCall

\* const pathD = generateOctilinearPath(fromPos.x, fromPos.y, toPos.x, toPos.y, totalOffset)
pathCall ==
  /\ Len(result) < MaxPathCalls
  /\ result' = Append(result, generateOctilinearPath(args.x1, args.y1, args.x2, args.y2,
                                                      args.offset))
  /\ CallStep

NextPath == pathCall

SpecPath == InitPath /\ [][NextPath]_vars

(***************************************************************************)
(* calculateHubPosition.  A relation is its type and whether it carries a  *)
(* label entity; the weighted averages are exact fractions.                *)
(***************************************************************************)
HUBS == [personnel |-> [x |-> -3, y |-> -2],
         studio |-> [x |-> 4, y |-> 2],
         tour |-> [x |-> 2, y |-> -4]]

\* { ...HUBS, writing: ..., label: ... }
hubs == [personnel |-> HUBS.personnel, studio |-> HUBS.studio, tour |-> HUBS.tour,
         writing |-> [x |-> -4, y |-> 3],
         label |-> [x |-> 5, y |-> -3]]

\* the chain of conditionals that names the weight a relation counts for
relationWeight(rel) ==
  IF rel.type = "member of band" THEN "member"
  ELSE IF rel.type \in {"collaboration", "production"} THEN "studio"
  ELSE IF rel.type \in {"writer", "composer", "lyricist", "songwriter"} THEN "writing"
  ELSE IF rel.label THEN "label"
  ELSE "null"

\* weights after the forEach
weightsOf(relations) ==
  [w \in {"member", "studio", "writing", "label"} |->
     Cardinality({i \in 1..Len(relations) : relationWeight(relations[i]) = w})]

\* faulty variant: the fraction is cut off
MathFloor(q) == q.num \div q.den

\* Math.round: the nearest integer, a half going up
MathRound(q) == (2 * q.num + q.den) \div (2 * q.den)

calculateHubPosition(artistData) ==
  IF artistData.relations = undefined \/ Len(artistData.relations) = 0
  THEN [x |-> 0, y |-> 0]
  ELSE LET weights == weightsOf(artistData.relations)
           total == weights.member + weights.studio + weights.writing + weights.label
           share(w) == quotient(whole(w), whole(total))
           x == sum(sum(sum(product(share(weights.member), whole(hubs.personnel.x)),
                            product(share(weights.studio), whole(hubs.studio.x))),
                        product(share(weights.writing), whole(hubs.writing.x))),
                    product(share(weights.label), whole(hubs.label.x)))
           y == sum(sum(sum(product(share(weights.member), whole(hubs.personnel.y)),
                            product(share(weights.studio), whole(hubs.studio.y))),
                        product(share(weights.writing), whole(hubs.writing.y))),
                    product(share(weights.label), whole(hubs.label.y)))
       IN IF total = 0 THEN [x |-> 0, y |-> 0]
          ELSE [x |-> MathRound(x), y |-> MathRound(y)]

(***************************************************************************)
(* SpecHub: calculateHubPosition applied to a record of the collaborator,  *)
(* with up to MaxHubRelations relations or without the relations key.      *)
(***************************************************************************)
RelationTypes ==
  {"member of band", "collaboration", "production", "writer", "composer", "lyricist",
   "songwriter", "tour"}

Relations == [type : RelationTypes, label : BOOLEAN]

InitHub ==
  /\ StoreMounted({EmptyGraph})
  /\ ViewportMounted
  /\ \/ args = [relations |-> undefined]
     \/ \E n \in 0..MaxHubRelations : \E relations \in [1..n -> Relations] :
          args = [relations |-> relations]
  /\ result = NoCall

\* const hubPosition = calculateHubPosition(artistData)
hubCall ==
  /\ result = NoCall
  /\ result' = <<calculateHubPosition(args)>>
  /\ CallStep

NextHub == hubCall

SpecHub == InitHub /\ [][NextHub]_vars

(***************************************************************************)
(* SpecLoad: loadGraphFromStorage applied to what localStorage can hold:   *)
(* nothing, texts that are no JSON or are "null", and the texts of objects *)
(* with both keys, one key, no key, or null under a key.                   *)
(***************************************************************************)
LoadValues(stored) ==
  [artists : {g.artists : g \in stored} \cup {null},
   connections : {g.connections : g \in stored} \cup {null}]

ObjectTexts(stored) ==
  UNION {{<<"artists", v.artists, "connections", v.connections>>,
          <<"connections", v.connections, "artists", v.artists>>,
          <<"artists", v.artists>>,
          <<"connections", v.connections>>,
          <<>>} : v \in LoadValues(stored)}

StorageItems(n) ==
  {NoItem, [kind |-> "invalid", text |-> <<>>], [kind |-> "null", text |-> <<>>]}
    \cup {[kind |-> "object", text |-> s] :
            s \in ObjectTexts(UNION {StoredAfter(k, Years, Types, 1) : k \in 0..n})}

InitLoad ==
  /\ StoreMounted({EmptyGraph})
  /\ ViewportMounted
  /\ args \in StorageItems(MaxLoadIds)
  /\ result = NoCall

\* useState(() => loadGraphFromStorage())
loadCall ==
  /\ result = NoCall
  /\ result' = <<loadGraphFromStorage(args)>>
  /\ CallStep

NextLoad == loadCall

SpecLoad == InitLoad /\ [][NextLoad]_vars

(***************************************************************************)
(* Pan and zoom handlers of the viewport.                                  *)
(***************************************************************************)
\* faulty variant: the window moves as far as the mouse
dragDistancePlain(client, start) == whole(client - start)

\* (e.clientX - panStart.x) * 1.5
dragDistance(client, start) == product(whole(client - start), fraction(3, 2))

\* the mouse event and the viewport hooks it found
BeforeMouse(op, e) ==
  [op |-> op, prev |-> last.op, e |-> e, viewBox |-> viewBox, isPanning |-> isPanning,
   panStart |-> panStart]

\* a step of the viewport: the graph store stays
ViewStep ==
  UNCHANGED <<graph, history, historyIndex, error, loadingArtists, pending, run, args,
              result>>

handleMouseDown(e) ==
  /\ IF e.button = 0
     THEN isPanning' = TRUE /\ panStart' = [x |-> e.clientX, y |-> e.clientY]
     ELSE UNCHANGED <<isPanning, panStart>>
  /\ last' = BeforeMouse("mouseDown", e)
  /\ UNCHANGED viewBox
  /\ ViewStep

handleMouseMove(e) ==
  /\ IF isPanning
     THEN LET dx == dragDistance(e.clientX, panStart.x)
              dy == dragDistance(e.clientY, panStart.y)
          IN /\ viewBox' = [viewBox EXCEPT !.x = difference(@, dx),
                                           !.y = difference(@, dy)]
             /\ panStart' = [x |-> e.clientX, y |-> e.clientY]
     ELSE UNCHANGED <<viewBox, panStart>>
  /\ last' = BeforeMouse("mouseMove", e)
  /\ UNCHANGED isPanning
  /\ ViewStep

handleMouseUp ==
  /\ isPanning' = FALSE
  /\ last' = BeforeMouse("mouseUp", [button |-> 0, clientX |-> 0, clientY |-> 0])
  /\ UNCHANGED <<viewBox, panStart>>
  /\ ViewStep

\* faulty variant: the wheel scales the window about its origin
zoomOriginKept(origin, cursor, extent, size, newSize) == origin

\* prev.x + (x / rect.width) * (prev.width - newWidth)
zoomOrigin(origin, cursor, extent, size, newSize) ==
  sum(origin, product(quotient(whole(cursor), whole(extent)), difference(size, newSize)))

\* e.deltaY > 0 ? 1.1 : 0.9
wheelDelta(e) == IF e.deltaY > 0 THEN fraction(11, 10) ELSE fraction(9, 10)

\* rect is svgRef.current.getBoundingClientRect()
handleWheel(e, rect) ==
  /\ LET delta == wheelDelta(e)
         x == e.clientX - rect.left
         y == e.clientY - rect.top
         newWidth == product(viewBox.width, delta)
         newHeight == product(viewBox.height, delta)
     IN viewBox' = [x |-> zoomOrigin(viewBox.x, x, rect.width, viewBox.width, newWidth),
                    y |-> zoomOrigin(viewBox.y, y, rect.height, viewBox.height, newHeight),
                    width |-> newWidth,
                    height |-> newHeight]
  /\ last' = [op |-> "wheel", prev |-> last.op, e |-> e, rect |-> rect,
              viewBox |-> viewBox, isPanning |-> isPanning, panStart |-> panStart]
  /\ UNCHANGED <<isPanning, panStart>>
  /\ ViewStep

(***************************************************************************)
(* SpecView: a few mouse events on the mounted component.                  *)
(***************************************************************************)
MouseCoordinates == {2 * k : k \in 0..MaxMouse}

MouseEvents == [button : {0, 2}, clientX : MouseCoordinates, clientY : MouseCoordinates]

\* the svg element on the screen: at the corner of the page, or inset
SvgRects ==
  {[left |-> 0, top |-> 0, width |-> 2 * MaxMouse, height |-> 6],
   [left |-> 1, top |-> 1, width |-> 8, height |-> 2 * MaxMouse]}

\* a wheel event reaches the svg when the mouse is over it
over(e, rect) ==
  /\ rect.left <= e.clientX /\ e.clientX <= rect.left + rect.width
  /\ rect.top <= e.clientY /\ e.clientY <= rect.top + rect.height

WheelEvents == [deltaY : {-100, 100}, clientX : MouseCoordinates, clientY : MouseCoordinates]

InitView == Mounted({EmptyGraph})

\* a mouse event is delivered
Delivered == calls < MaxViewCalls /\ calls' = calls + 1

NextView ==
  \/ \E e \in MouseEvents : Delivered /\ handleMouseDown(e)
  \/ \E e \in MouseEvents : Delivered /\ handleMouseMove(e)
  \/ Delivered /\ handleMouseUp
  \/ \E e \in WheelEvents, rect \in SvgRects :
       Delivered /\ over(e, rect) /\ handleWheel(e, rect)

SpecView == InitView /\ [][NextView]_vars

(***************************************************************************)
(* Edit history: properties checked under SpecHist                         *)
(***************************************************************************)
PushOps == {"add", "addStart", "remove", "clear"}

\* C1  History round-trip: after k <= 50 consecutive push+mutation steps
\* begun with the cursor at the newest snapshot, the n-th of the following
\* consecutive undo calls leaves the graph that existed before the
\* (k-n+1)-th mutation, and after k undos the n-th consecutive redo leaves the
\* graph that existed after the n-th mutation.
HistoryRoundTrip ==
  /\ run.phase = "undo" => graph = run.pre[Len(run.pre) - run.n + 1]
  /\ run.phase = "redo" => graph = run.post[run.n]

\* the 50th redo after 50 undos after 50 mutations
HistoryRoundTripWitness ==
  /\ run.phase = "redo"
  /\ Len(run.pre) = HistoryLimit
  /\ run.n = HistoryLimit
  /\ graph # EmptyGraph

\* C2  The history list never holds more than 50 snapshots.
HistoryWithinLimit == Len(history) <= HistoryLimit

\* C3  Right after a push the cursor is at the last snapshot, canRedo is
\* false and redo returns at once; a redo that follows a push changes neither
\* graph nor history nor cursor.
PushErasesRedoBranch ==
  /\ last.op \in PushOps =>
       /\ historyIndex = Len(history) - 1
       /\ ~canRedo(history, historyIndex)
       /\ redoReturns(history, historyIndex)
  /\ (last.op = "redo" /\ last.prev \in PushOps) =>
       /\ graph = last.graph
       /\ history = last.history
       /\ historyIndex = last.historyIndex

\* a push made while a redo branch existed
PushErasesRedoBranchWitness ==
  /\ last.op \in PushOps
  /\ canRedo(last.history, last.historyIndex)
  /\ Len(history) < Len(last.history)

\* C4  undo changes graph or cursor exactly when canUndo held, redo exactly
\* when canRedo held; otherwise graph, history and cursor stay as they were.
Changed == graph # last.graph \/ historyIndex # last.historyIndex

Untouched ==
  graph = last.graph /\ history = last.history /\ historyIndex = last.historyIndex

UndoRedoGuards ==
  /\ last.op = "undo" =>
       /\ Changed <=> canUndo(last.historyIndex)
       /\ ~canUndo(last.historyIndex) => Untouched
  /\ last.op = "redo" =>
       /\ Changed <=> canRedo(last.history, last.historyIndex)
       /\ ~canRedo(last.history, last.historyIndex) => Untouched

\* the undo that restores the earliest snapshot
UndoRedoGuardsWitness ==
  /\ last.op = "undo"
  /\ last.historyIndex = 0
  /\ Len(history) >= 3
  /\ Changed

\* C5 as stated: an effective redo sets the graph to the snapshot at index
\* cursor + 1 and increments the cursor.
RedoRestoresCursorPlusOne ==
  (last.op = "redo" /\ canRedo(last.history, last.historyIndex)) =>
    /\ graph = JSONparse(At(last.history, last.historyIndex + 1))
    /\ historyIndex = last.historyIndex + 1

\* C5 amended: an effective redo sets the graph to the snapshot at index
\* cursor + 2, increments the cursor and leaves the list alone.
RedoRestoresCursorPlusTwo ==
  (last.op = "redo" /\ canRedo(last.history, last.historyIndex)) =>
    /\ graph = JSONparse(At(last.history, last.historyIndex + 2))
    /\ historyIndex = last.historyIndex + 1
    /\ history = last.history

\* an effective redo between two different snapshots
RedoRestoresWitness ==
  /\ last.op = "redo"
  /\ canRedo(last.history, last.historyIndex)
  /\ At(last.history, last.historyIndex + 1) # At(last.history, last.historyIndex + 2)
  /\ last.historyIndex >= 1

(***************************************************************************)
(* Graph store: properties checked under Spec (C7: SpecRace, C10:          *)
(* SpecLayout)                                                             *)
(***************************************************************************)
\* new is old without the elements that fail Keep, the others in their order
IsFiltered(new, old, Keep(_)) ==
  LET kept == {i \in 1..Len(old) : Keep(old[i])}
      nth(j) == CHOOSE i \in kept : Cardinality({k \in kept : k < i}) = j - 1
  IN /\ Len(new) = Cardinality(kept)
     /\ \A j \in 1..Len(new) : new[j] = old[nth(j)]

RemovedPresent == last.op = "remove" /\ last.mbid \in ArtistIds(last.graph.artists)

RemovedAbsent == last.op = "remove" /\ last.mbid \notin ArtistIds(last.graph.artists)

\* C6  Cascade removal: removeArtist(X) with X on the map takes X away, takes
\* away exactly the connections with from = X or to = X, and keeps every
\* other artist (coordinates included) and connection, in the same order.
CascadeRemoval ==
  RemovedPresent =>
    /\ last.mbid \notin ArtistIds(graph.artists)
    /\ IsFiltered(graph.artists, last.graph.artists, LAMBDA a : a.id # last.mbid)
    /\ IsFiltered(graph.connections, last.graph.connections,
                  LAMBDA c : c.from # last.mbid /\ c.to # last.mbid)

\* a removal that drops connections and keeps two different ones
CascadeRemovalWitness ==
  /\ RemovedPresent
  /\ Len(graph.connections) >= 2
  /\ graph.connections[1] # graph.connections[2]
  /\ Len(graph.connections) < Len(last.graph.connections)
  /\ Len(graph.artists) >= 2

\* C7  removeArtist(id) with id not on the map leaves artists and connections
\* as they were and signals no error.
RemoveAbsentIsNoop ==
  RemovedAbsent =>
    /\ graph.artists = last.graph.artists
    /\ graph.connections = last.graph.connections
    /\ error = last.error

\* C8  addArtistToGraph with an id on the map sets the duplicate signal and
\* changes neither graph nor history nor cursor; a call that goes on to push
\* was made with an id not on the map.
DuplicateRejected ==
  /\ last.op = "addDuplicate" =>
       /\ last.mbid \in ArtistIds(last.graph.artists)
       /\ error = "Artist already added to the map"
       /\ Untouched
  /\ last.op \in {"addStart", "add"} => last.mbid \notin ArtistIds(last.graph.artists)

\* a rejected duplicate on a map with a history
DuplicateRejectedWitness ==
  /\ last.op = "addDuplicate"
  /\ Len(history) > 0
  /\ Len(graph.artists) >= 2

\* C9  A failed addArtistToGraph leaves graph, history and cursor as they
\* were when it was called, and sets an error signal.
FailedAddChangesNothing ==
  last.op \in {"addNotFound", "addFailed"} =>
    /\ Untouched
    /\ error # NoError

\* C10  No two artists of the graph share their coordinates.
Position(a) == <<a.x, a.y>>

NoOverlap ==
  \A i, j \in 1..Len(graph.artists) :
    i # j => Position(graph.artists[i]) # Position(graph.artists[j])

\* a full map laid out anew by an addition that followed a removal, with
\* artists that share a sort key and artists without a year
NoOverlapWitness ==
  /\ last.op = "add"
  /\ last.prev = "remove"
  /\ Len(graph.artists) = MaxLayoutIds
  /\ \E i, j \in 1..Len(graph.artists) :
       i # j /\ yearKey(graph.artists[i]) = yearKey(graph.artists[j])
  /\ \E i, j \in 1..Len(graph.artists) :
       graph.artists[i].year = 0 /\ graph.artists[j].year # 0

(***************************************************************************)
(* autoLayoutStations: properties checked under SpecOrder                  *)
(***************************************************************************)
coordinates(output) == {<<output[i].id, output[i].x, output[i].y>> : i \in 1..Len(output)}

distinctYears(m) ==
  \A i, j \in 1..Len(m) : i # j => yearKey(m[i]) # yearKey(m[j])

\* C12 as stated: two mappings with the same artists, inserted in different
\* orders, receive the same coordinates for every artist.
OrderInsignificant ==
  \A i, j \in 1..Len(result) :
    sameArtists(result[i].input, result[j].input) =>
      coordinates(result[i].output) = coordinates(result[j].output)

\* C12 amended: two mappings with the same artists, whose years (a missing
\* year counting as 1970) are pairwise different, receive the same
\* coordinates for every artist in whatever order they were inserted.
OrderInsignificantForDistinctYears ==
  \A i, j \in 1..Len(result) :
    (sameArtists(result[i].input, result[j].input) /\ distinctYears(result[i].input)) =>
      coordinates(result[i].output) = coordinates(result[j].output)

\* three artists with different years laid out from two different orders
OrderInsignificantWitness ==
  /\ Len(result) = 2
  /\ sameArtists(result[1].input, result[2].input)
  /\ result[1].input # result[2].input
  /\ distinctYears(result[1].input)
  /\ Len(result[1].input) = MaxOrderIds
  /\ \E i \in 1..Len(result[1].input) : result[1].input[i].year = 0

(***************************************************************************)
(* findAllPaths: properties checked under SpecRoute                        *)
(***************************************************************************)
\* the ids joined to an id of S by one connection, in either direction
neighbours(connections, S) ==
  S \cup {connections[i].to : i \in {j \in 1..Len(connections) : connections[j].from \in S}}
    \cup {connections[i].from : i \in {j \in 1..Len(connections) : connections[j].to \in S}}

RECURSIVE within(_, _, _)
\* the ids joined to an id of S by a path of at most k connections
within(connections, S, k) ==
  IF k = 0 THEN S ELSE within(connections, neighbours(connections, S), k - 1)

joined(k) == args.endId \in within(args.graph.connections, {args.startId}, k)

routeReturned == result # NoCall /\ result[1] # NoRoute

\* C13  Route minimality: when findAllPaths returns a route, no path of
\* fewer connections joins startId and endId.
RouteMinimality ==
  routeReturned => \A k \in 0..(Len(result[1]) - 1) : ~joined(k)

\* A-B, B-C and A-C in that order, so that the search finds the two-step
\* path first: the route from A to C is the single connection A-C
RouteMinimalityWitness ==
  /\ routeReturned
  /\ Len(args.graph.connections) = 3
  /\ LET c == args.graph.connections
     IN /\ {c[1].from, c[1].to} \cap {c[2].from, c[2].to} # {}
        /\ args.startId \in {c[1].from, c[1].to} \ {c[2].from, c[2].to}
        /\ args.endId \in {c[2].from, c[2].to} \ {c[1].from, c[1].to}
        /\ {c[3].from, c[3].to} = {args.startId, args.endId}
        /\ result[1] = <<[conn |-> c[3], artistId |-> args.endId]>>

\* C14  findAllPaths returns null exactly when startId = endId or no path
\* of at most maxDepth connections joins the two ids.
RouteAbsence ==
  result # NoCall =>
    (result[1] = NoRoute <=> (args.startId = args.endId \/ ~joined(args.maxDepth)))

\* a pair joined by a path of exactly maxDepth connections and by no shorter
\* one, with maxDepth at its largest
RouteAbsenceWitness ==
  /\ routeReturned
  /\ args.maxDepth = MaxRouteDepth
  /\ Len(result[1]) = MaxRouteDepth
  /\ ~joined(MaxRouteDepth - 1)

\* C15  findAllPaths returns null when startId or endId is not the id of an
\* artist of the graph.
RouteNeedsArtists ==
  (result # NoCall /\ ~(hasArtist(args.graph, args.startId)
                         /\ hasArtist(args.graph, args.endId))) =>
    result[1] = NoRoute

(***************************************************************************)
(* Bundles and offsets: properties checked under SpecBundle                *)
(***************************************************************************)
bundled == result # NoCall

bundlesOf(r) == {r.bundledConnections[k] : k \in DOMAIN r.bundledConnections}

samePair(c1, c2) == {c1.from, c1.to} = {c2.from, c2.to}

\* the places (bundle key, position) at which the n-th connection is held
placesOf(bundles, n) ==
  {p \in UNION {{<<k, i>> : i \in DOMAIN bundles[k]} : k \in DOMAIN bundles} :
     bundles[p[1]][p[2]] = n}

\* C16  getBundledConnections puts every connection in exactly one bundle,
\* exactly once, puts A->B and B->A in the same bundle, and keeps the
\* connections of a bundle in the order of the list.
BundlePartition ==
  bundled =>
    LET conns == args.connections
        bundles == result[1].bundledConnections
    IN /\ \A n \in 1..Len(conns) : Cardinality(placesOf(bundles, n)) = 1
       /\ \A n, m \in 1..Len(conns) :
            samePair(conns[n], conns[m]) =>
              \E k \in DOMAIN bundles : \E i, j \in DOMAIN bundles[k] :
                bundles[k][i] = n /\ bundles[k][j] = m
       /\ \A k \in DOMAIN bundles : \A i, j \in DOMAIN bundles[k] :
            i < j => bundles[k][i] < bundles[k][j]

\* A->B, then a connection of another pair, then B->A: two bundles, the
\* first holding the first and the third connection
BundlePartitionWitness ==
  /\ bundled
  /\ Len(args.connections) = 3
  /\ args.connections[1].from = args.connections[3].to
  /\ args.connections[1].to = args.connections[3].from
  /\ ~samePair(args.connections[1], args.connections[2])
  /\ <<1, 3>> \in bundlesOf(result[1])
  /\ <<2>> \in bundlesOf(result[1])

RECURSIVE sumOf(_, _)
sumOf(f, S) ==
  IF S = {} THEN 0 ELSE LET n == CHOOSE n \in S : TRUE IN f[n] + sumOf(f, S \ {n})

\* C17  Bundling symmetry: in a bundle of n connections the bundle offsets
\* are (i - (n-1)/2) * LINE_GAP for i = 0..n-1, they sum to zero, the offset
\* at i is the negative of the offset at n-1-i, and for n = 1 it is zero.
BundleSymmetry ==
  bundled =>
    \A bundle \in bundlesOf(result[1]) :
      LET n == Len(bundle)
          offset == [i \in 0..(n - 1) |-> result[1].lines[bundle[i + 1]].bundleOffset]
      IN /\ \A i \in 0..(n - 1) :
              /\ result[1].lines[bundle[i + 1]].bundleIndex = i
              /\ result[1].lines[bundle[i + 1]].bundleTotal = n
              /\ 2 * offset[i] = (2 * i - (n - 1)) * LINE_GAP
              /\ offset[i] = 0 - offset[n - 1 - i]
         /\ sumOf(offset, 0..(n - 1)) = 0
         /\ n = 1 => offset[0] = 0

\* a bundle of the largest size and, in another list, one of odd size
BundleSymmetryWitness ==
  /\ bundled
  /\ \E bundle \in bundlesOf(result[1]) :
       /\ Len(bundle) = MaxBundleTotal
       /\ result[1].lines[bundle[1]].bundleOffset < 0
       /\ result[1].lines[bundle[MaxBundleTotal]].bundleOffset > 0

\* C18  Two different connections of one bundle receive different total
\* offsets typeOffset + bundleOffset.
ParallelLinesApart ==
  bundled =>
    \A bundle \in bundlesOf(result[1]) : \A i, j \in 1..Len(bundle) :
      i # j => result[1].lines[bundle[i]].totalOffset # result[1].lines[bundle[j]].totalOffset

(***************************************************************************)
(* generateOctilinearPath: properties checked under SpecPath               *)
(***************************************************************************)
zero == number(0)

\* the segment from point p to point q
segment(p, q) == [dx |-> minus(q.x, p.x), dy |-> minus(q.y, p.y)]

horizontal(s) == s.dy = zero

vertical(s) == s.dx = zero

diagonal(s) == s.dx = s.dy \/ s.dx = minus(zero, s.dy)

octilinear(path) ==
  /\ Len(path) \in {2, 3}
  /\ \A i \in 1..(Len(path) - 1) :
       LET s == segment(path[i], path[i + 1])
       IN horizontal(s) \/ vertical(s) \/ diagonal(s)

\* within the tolerance of a direction only when exactly in that direction
alignedArgs ==
  LET dx == args.x2 - args.x1
      dy == args.y2 - args.y1
  IN IF abs(dy) < TOLERANCE THEN dy = 0
     ELSE IF abs(dx) < TOLERANCE THEN dx = 0
     ELSE abs(abs(dx) - abs(dy)) < TOLERANCE => abs(dx) = abs(dy)

panned == last.op = "mouseMove" /\ last.isPanning

sameSize == viewBox.width = last.viewBox.width /\ viewBox.height = last.viewBox.height

\* C20 as stated: a drag of (dx, dy) moves the origin of the window by
\* exactly (-dx, -dy) and leaves its width and height as they were.
PanFollowsDrag ==
  panned =>
    /\ viewBox.x = difference(last.viewBox.x, whole(last.e.clientX - last.panStart.x))
    /\ viewBox.y = difference(last.viewBox.y, whole(last.e.clientY - last.panStart.y))
    /\ sameSize

\* C20 amended: a mouse move of (dx, dy) while panning moves the origin of
\* the window by exactly (-1.5 dx, -1.5 dy) and leaves its width and height
\* as they were; a mouse move while not panning leaves the window alone.
PanScalesDrag ==
  /\ panned =>
       /\ difference(last.viewBox.x, viewBox.x)
            = fraction(3 * (last.e.clientX - last.panStart.x), 2)
       /\ difference(last.viewBox.y, viewBox.y)
            = fraction(3 * (last.e.clientY - last.panStart.y), 2)
       /\ sameSize
  /\ (last.op = "mouseMove" /\ ~last.isPanning) => viewBox = last.viewBox

\* the second move of a drag, in both directions
PanScalesDragWitness ==
  /\ panned
  /\ last.prev = "mouseMove"
  /\ last.e.clientX # last.panStart.x
  /\ last.e.clientY # last.panStart.y
  /\ last.viewBox.x # whole(0)

\* the wheel event's position inside the svg, as a share of its width and height
cursorShare(position, extent) == quotient(whole(position), whole(extent))

\* the world coordinate shown at a share of the window
worldAt(origin, share, size) == sum(origin, product(share, size))

zoomed == last.op = "wheel"

\* C21: a wheel event multiplies the width and the height of the window by
\* its factor (1.1 or 0.9) and keeps the world point under the cursor where
\* it was: oldX + (cursorX / screenWidth) * oldWidth
\*        = newX + (cursorX / screenWidth) * newWidth, and likewise for y.
ZoomKeepsCursorPoint ==
  zoomed =>
    LET delta == wheelDelta(last.e)
        shareX == cursorShare(last.e.clientX - last.rect.left, last.rect.width)
        shareY == cursorShare(last.e.clientY - last.rect.top, last.rect.height)
    IN /\ viewBox.width = product(last.viewBox.width, delta)
       /\ viewBox.height = product(last.viewBox.height, delta)
       /\ worldAt(last.viewBox.x, shareX, last.viewBox.width)
            = worldAt(viewBox.x, shareX, viewBox.width)
       /\ worldAt(last.viewBox.y, shareY, last.viewBox.height)
            = worldAt(viewBox.y, shareY, viewBox.height)

\* a second zoom, away from the corner of an inset svg, that moved the origin of
\* a window which no longer starts at the origin
ZoomKeepsCursorPointWitness ==
  /\ zoomed
  /\ last.prev = "wheel"
  /\ last.rect.left # 0
  /\ last.e.clientX # last.rect.left
  /\ last.e.clientY # last.rect.top
  /\ last.viewBox.x # whole(0)
  /\ viewBox.x # last.viewBox.x
  /\ viewBox.y # last.viewBox.y
  /\ viewBox.width.den # 1

(***************************************************************************)
(* Persistence: properties checked under SpecLoad                          *)
(***************************************************************************)
loaded == result # NoCall

hasKey(s, key) == \E i \in 1..(Len(s) \div 2) : s[2 * i - 1] = key

bothKeys == args.kind = "object" /\ hasKey(args.text, "artists")
              /\ hasKey(args.text, "connections")

asStored ==
  result[1] = [artists |-> member(args.text, "artists"),
               connections |-> member(args.text, "connections")]

\* C22 as stated: a snapshot that lacks either top-level key loads as the
\* empty graph, and a snapshot that has both keys loads as it is.
LoadByKeys ==
  loaded =>
    /\ ~bothKeys => result[1] = EmptyGraph
    /\ bothKeys => asStored

\* C22 amended: a snapshot loads as it is when both top-level keys are there
\* and neither holds null; every other stored item (a key missing, null under
\* a key, no item, a text that is no object) loads as the empty graph.
LoadByTruthyKeys ==
  loaded =>
    LET complete == /\ bothKeys
                    /\ member(args.text, "artists") # null
                    /\ member(args.text, "connections") # null
    IN /\ complete => asStored
       /\ ~complete => result[1] = EmptyGraph

\* a snapshot with artists and null for the connections was loaded
LoadByTruthyKeysWitness ==
  /\ loaded
  /\ bothKeys
  /\ member(args.text, "connections") = null
  /\ member(args.text, "artists") # null
  /\ member(args.text, "artists") # <<>>
  /\ result[1] = EmptyGraph

(***************************************************************************)
(* Interleaving: properties checked under Spec                             *)
(***************************************************************************)
HistoryOps == {"undo", "redo", "remove", "clear"}

isPrefix(s, u) == Len(s) <= Len(u) /\ SubSeq(u, 1, Len(s)) = s

\* C23: when undo, redo, removeArtist or the clear button ran while an artist
\* was being fetched, the graph after the artist is applied is the graph that
\* operation left plus the new artist and its connections.
BatchKeepsIntervening ==
  (last.op = "addApply" /\ last.prev \in HistoryOps) =>
    /\ ArtistIds(graph.artists) = ArtistIds(last.graph.artists) \cup {last.mbid}
    /\ isPrefix(last.graph.connections, graph.connections)

(***************************************************************************)
(* Undo: properties checked under SpecHist                                 *)
(***************************************************************************)
undone == last.op = "undo" /\ ~undoReturns(last.historyIndex)

atLastEntry == last.historyIndex = Len(last.history) - 1

\* C24: an undo taken with the cursor at the last entry of the history appends
\* the graph it found to the end of the history before it restores, and redo
\* then returns exactly that graph; an undo taken at any other cursor position
\* leaves the list of the history as it was.
UndoSavesCurrentAtEnd ==
  /\ (undone /\ atLastEntry) =>
       /\ history = Append(last.history, JSONstringify(last.graph))
       /\ ~redoReturns(history, historyIndex)
       /\ redoGraph(history, historyIndex) = last.graph
  /\ (last.op = "undo" /\ ~(undone /\ atLastEntry)) => history = last.history

\* the first undo after a second push, which changed the graph
UndoSavesCurrentAtEndWitness ==
  /\ undone
  /\ atLastEntry
  /\ last.prev \in PushOps
  /\ last.historyIndex >= 1
  /\ Len(last.graph.artists) > 0
  /\ graph # last.graph

(***************************************************************************)
(* Layout: properties checked under SpecSpiral                             *)
(***************************************************************************)
SpiralCells ==
  << <<0, 0>>, <<2, 0>>, <<2, 1>>, <<0, 1>>, <<-2, 1>>, <<-2, 0>>, <<-2, -1>>,
     <<0, -1>>, <<2, -1>>, <<4, -1>> >>

RECURSIVE walk(_, _)
\* the first n cells of the spiral that continues from s
walk(s, n) == IF n = 0 THEN <<>> ELSE << <<s.x, s.y>> >> \o walk(spiralStep(s), n - 1)

sortYear(a) == IF a.year = 0 THEN DefaultYear ELSE a.year

\* C25: the layout holds the artists it was given in ascending order of year,
\* a missing year counting as 1970; the i-th of them is on the i-th cell of
\* the spiral, which begins (0,0), (2,0), (2,1), (0,1), (-2,1), (-2,0),
\* (-2,-1), (0,-1), (2,-1), (4,-1) and does not come back to a cell.
SpiralLayout ==
  result # NoCall =>
    LET out == result[1].output
        cells == walk(spiralStart, Len(args) + MaxSpiralIds)
    IN /\ Len(out) = Len(args)
       /\ {[id |-> out[i].id, year |-> out[i].year] : i \in 1..Len(out)}
            = {[id |-> args[i].id, year |-> args[i].year] : i \in 1..Len(args)}
       /\ \A i \in 1..(Len(out) - 1) : sortYear(out[i]) <= sortYear(out[i + 1])
       /\ \A i \in 1..Len(out) : <<out[i].x, out[i].y>> = cells[i]
       /\ \A i \in 1..Len(SpiralCells) : cells[i] = SpiralCells[i]
       /\ \A i, j \in 1..Len(cells) : i # j => cells[i] # cells[j]

\* ten artists, given with the years out of order and one year missing, fill
\* the ten cells
SpiralLayoutWitness ==
  /\ result # NoCall
  /\ Len(result[1].output) = Len(SpiralCells)
  /\ result[1].output[Len(SpiralCells)].x = 4
  /\ result[1].output[Len(SpiralCells)].y = -1
  /\ result[1].output # args
  /\ \E i \in 1..Len(args) : args[i].year = 0
  /\ \E i \in 1..(Len(args) - 1) : sortYear(args[i]) > sortYear(args[i + 1])

(***************************************************************************)
(* Hub placement: properties checked under SpecHub                         *)
(***************************************************************************)
Categories == {"member", "studio", "writing", "label"}

HubOf == [member |-> <<-3, -2>>, studio |-> <<4, 2>>, writing |-> <<-4, 3>>,
          label |-> <<5, -3>>]

inCategory(c) ==
  IF args.relations = undefined THEN 0
  ELSE Cardinality({i \in 1..Len(args.relations) : relationWeight(args.relations[i]) = c})

weighted == inCategory("member") + inCategory("studio") + inCategory("writing")
              + inCategory("label")

\* the sum of the hubs' coordinates on an axis, each counted once per relation
hubSum(axis) ==
  inCategory("member") * HubOf.member[axis] + inCategory("studio") * HubOf.studio[axis]
    + inCategory("writing") * HubOf.writing[axis] + inCategory("label") * HubOf.label[axis]

\* r is an integer nearest to s / n
nearest(r, s, n) == 2 * magnitude(r * n - s) <= n

\* C26: the position is (0,0) when no relation falls in one of the four
\* weighted categories; otherwise each coordinate is an integer nearest to
\* the average of the hubs member (-3,-2), studio (4,2), writing (-4,3)
\* and label (5,-3) weighted by the number of relations in each category,
\* which is the hub itself when all weighted relations are of one category.
HubPlacement ==
  result # NoCall =>
    /\ weighted = 0 => result[1] = [x |-> 0, y |-> 0]
    /\ weighted > 0 =>
         /\ nearest(result[1].x, hubSum(1), weighted)
         /\ nearest(result[1].y, hubSum(2), weighted)
    /\ \A c \in Categories :
         (weighted > 0 /\ inCategory(c) = weighted) =>
           result[1] = [x |-> HubOf[c][1], y |-> HubOf[c][2]]

\* a record with a membership, a studio and an uncounted relation: the averages
\* 1/2 and 0 become the cell (1, 0)
HubPlacementWitness ==
  /\ result # NoCall
  /\ inCategory("member") = 1
  /\ inCategory("studio") = 1
  /\ weighted = 2
  /\ Len(args.relations) = 3
  /\ result[1] = [x |-> 1, y |-> 0]

(***************************************************************************)
(* Route shape: checked under SpecRoute                                    *)
(***************************************************************************)
\* the artist a step of the route leaves from
leftAt(route, i) == IF i = 1 THEN args.startId ELSE route[i - 1].artistId

\* C27: a route findAllPaths returns is a simple path: its first step leaves
\* from startId, the connection of each step is one of the graph and joins
\* the artist the step leaves from to the artist it names, in either stored
\* direction, the last step names endId, no artist, startId included, occurs
\* twice, and the route has between 1 and maxDepth steps.
RouteWellFormed ==
  routeReturned =>
    LET route == result[1]
    IN /\ 1 <= Len(route) /\ Len(route) <= args.maxDepth
       /\ \A i \in 1..Len(route) :
            /\ \E n \in 1..Len(args.graph.connections) :
                 route[i].conn = args.graph.connections[n]
            /\ \/ route[i].conn.from = leftAt(route, i)
                  /\ route[i].conn.to = route[i].artistId
               \/ route[i].conn.to = leftAt(route, i)
                  /\ route[i].conn.from = route[i].artistId
       /\ route[Len(route)].artistId = args.endId
       /\ \A i \in 1..Len(route) : route[i].artistId # args.startId
       /\ \A i, j \in 1..Len(route) : i # j => route[i].artistId # route[j].artistId

\* a route of the largest depth whose first connection is followed as stored
\* and whose last is followed against its stored direction
RouteWellFormedWitness ==
  /\ routeReturned
  /\ Len(result[1]) = MaxRouteDepth
  /\ result[1][1].conn.from = args.startId
  /\ result[1][Len(result[1])].conn.from = args.endId
  /\ Len(args.graph.connections) = MaxRouteConns

(***************************************************************************)
(* Referential integrity: checked under SpecSerial                         *)
(***************************************************************************)
\* C28: from the empty map, with addArtistToGraph, removeArtist, the clear
\* button, undo and redo applied one at a time, both ends of every connection
\* of the graph are ids of artists of the graph.
ReferentialIntegrity ==
  \A i \in 1..Len(graph.connections) :
    /\ hasArtist(graph, graph.connections[i].from)
    /\ hasArtist(graph, graph.connections[i].to)

\* an undo has brought back a removed artist together with its connection
ReferentialIntegrityWitness ==
  /\ last.op = "undo"
  /\ last.prev = "remove"
  /\ Len(graph.connections) > Len(last.graph.connections)
  /\ Len(graph.artists) > Len(last.graph.artists)

(***************************************************************************)
(* Recording of changes: checked under SpecRace                            *)
(***************************************************************************)
\* C29: while the cursor is not at the last entry of the history, the graph
\* is the snapshot at index cursor + 1; and a step that changes the graph is
\* an undo, a redo, or a handler that pushed to the history before it wrote.
EveryChangeRecorded ==
  /\ historyIndex < Len(history) - 1 => graph = JSONparse(At(history, historyIndex + 1))
  /\ (graph # last.graph /\ last.op \notin {"init", "undo", "redo"}) =>
       last.op \in PushOps \cup {"addApply"}

(***************************************************************************)
(* Bundle keys: checked under SpecKey                                      *)
(***************************************************************************)
sameBundle(bundles, n, m) ==
  \E k \in DOMAIN bundles : \E i, j \in DOMAIN bundles[k] :
    bundles[k][i] = n /\ bundles[k][j] = m

bundlesBySamePair ==
  \A n, m \in 1..Len(args.connections) :
    sameBundle(result[1].bundledConnections, n, m)
      => samePair(args.connections[n], args.connections[m])

idsOf(connections) ==
  {connections[n].from : n \in 1..Len(connections)}
    \cup {connections[n].to : n \in 1..Len(connections)}

hasDash(id) == \E i \in 1..Len(codeUnits(id)) : codeUnits(id)[i] = Dash[1]

=============================================================================
